---- MODULE Spec2Model ----
(***************************************************************************)
(* Model of the prop-control GUI: the server bar (server_bar.vue) with its *)
(* periodic health probe, and the camera panel (latest version, lines      *)
(* 98-211 of part_001) with its camera list, reconnect and pan commands.   *)
(* All callbacks run on one event loop: every action below is one task or  *)
(* one promise reaction, run to completion.                                *)
(***************************************************************************)
EXTENDS Integers, Sequences, FiniteSets, Bags, TLC

\* ---------------------------------------------------------------- bounds
MaxLists == 2        \* camera-list GETs outstanding at the same time
MaxReconnects == 1   \* reconnect POSTs outstanding at the same time
MaxPosts == 2        \* pan-command POSTs outstanding at the same time

\* ------------------------------------------------------ program constants
TickIntervalMs == 1000     \* setInterval(fetchServerHealth, 1000)
ProbeTimeoutMs == 1000     \* AbortSignal.timeout(1000)
Step == 2                  \* pan step 0.2, in tenths

\* A probe is aborted ProbeTimeoutMs after the tick that launched it, so it
\* can still be outstanding at this many later ticks (the abort timer is
\* armed inside the tick callback, hence after the interval timer).
MaxTicksOutstanding == ProbeTimeoutMs \div TickIntervalMs

\* ------------------------------------------------------------ value sets
Servers == {"a", "b"}                      \* hosts the operator can type
Addresses == Servers \union {""}           \* values of the input field
Undefined == "undefined"                   \* an unassigned let / ref()

Cam1 == [hostname |-> "cam1", ip |-> "10.0.0.6", stream_path |-> "/cam1/"]
Cam2 == [hostname |-> "cam2", ip |-> "10.0.0.7", stream_path |-> "/cam2/"]
\* the `cameras` lists a discovery response can carry
CameraLists == {<<>>, <<Cam1, Cam2>>}

\* HealthStatus values held by server_status
Initial == [kind |-> "Initial", text |-> ""]
Unset == [kind |-> "Unset", text |-> "Ip Not Set"]
Disabled == [kind |-> "Disabled", text |-> "Health Check Disabled"]
Ok(m) == [kind |-> "Ok", text |-> m]
Error(d) == [kind |-> "Error", text |-> d]
NoMessage == [kind |-> "Undefined", text |-> Undefined]

\* texts shown in "Cameras Output"
Fetching == "Fetching Cameras..."
Loaded == "Cameras Loaded Successfully"

VARIABLES
  ip_address,            \* server_bar: text of the address field (v-model)
  server_status,         \* server_bar: HealthStatus shown
  health_check_enabled,  \* server_bar: checkbox
  probes,                \* /health requests outstanding: [addr, age, header]
  probe_outcome,         \* how the probe that settled last ended ("none" at start)
  backend_ip,            \* address held by the backend (submit_ip)
  server_ip,             \* camera panel: let server_ip
  invokes,               \* fetch_server_ip calls not yet resolved (values)
  arr,                   \* camera panel: let arr, the held camera sequence
  cameras,               \* camera panel: cameras ref
  text,                  \* camera panel: text ref
  rendered,              \* camera panels drawn by the last render of arr
  lists,                 \* bag of camera-list GETs outstanding: [addr, header,
                         \* before (arr when get_list was called),
                         \* overlapped (another GET was outstanding with it)]
  reconnects,            \* bag of reconnect POSTs outstanding: [addr, header]
  posts                  \* bag of pan-command POSTs outstanding

healthVars == <<ip_address, server_status, health_check_enabled, probes,
                probe_outcome>>
cameraVars == <<server_ip, invokes, arr, cameras, text, rendered, lists,
                reconnects, posts>>
vars == <<ip_address, server_status, health_check_enabled, probes,
          probe_outcome, backend_ip, server_ip, invokes, arr, cameras, text, rendered,
          lists, reconnects, posts>>

ServerAddress == ip_address

Init ==
  /\ ip_address = ""
  /\ server_status = Initial
  /\ health_check_enabled = FALSE
  /\ probes = {}
  /\ probe_outcome = "none"
  /\ backend_ip = ""
  /\ server_ip = Undefined
  /\ invokes = {}
  /\ arr = <<>>
  /\ cameras = Undefined
  /\ text = Undefined
  /\ rendered = <<>>
  /\ lists = EmptyBag
  /\ reconnects = EmptyBag
  /\ posts = EmptyBag

\* requests in flight are bags: responses land in any order
Sent(bag, req) == bag (+) SetToBag({req})
Landed(bag, req) == bag (-) SetToBag({req})
\* the outstanding camera-list GETs, each noted as having had company
Overlapped(bag) ==
  [q \in {[r EXCEPT !.overlapped = TRUE] : r \in BagToSet(bag)} |->
     CopiesIn(q, bag) + CopiesIn([q EXCEPT !.overlapped = FALSE], bag)]

\* ============================================================ server bar

\* <input type="text" v-model="ip_address">: an input event
EditAddress(v) ==
  /\ v # ip_address
  /\ ip_address' = v
  /\ UNCHANGED <<server_status, health_check_enabled, probes, probe_outcome,
                  backend_ip>>
  /\ UNCHANGED cameraVars

\* submitIP(ip_address), from @change or the form's submit
submitIP ==
  /\ backend_ip' = ip_address
  /\ UNCHANGED healthVars
  /\ UNCHANGED cameraVars

\* <input type="checkbox" v-model="health_check_enabled">
ToggleHealthCheck ==
  /\ health_check_enabled' = ~health_check_enabled
  /\ UNCHANGED <<ip_address, server_status, probes, probe_outcome, backend_ip>>
  /\ UNCHANGED cameraVars

Aged(ps) == {[p EXCEPT !.age = @ + 1] : p \in ps}

\* the header names of the requests: the pan, list and reconnect requests
\* carry "Authorization", the /health request carries no header
Authorization == "Authorization"
NoHeader == "(none)"

\* fetch(`http://${ip_address.value}:8000/health`, { signal: ... }), line 18
HealthRequest == [addr |-> ip_address, age |-> 0, header |-> NoHeader]

\* one interval tick: fetchServerHealth()
fetchServerHealth ==
  /\ \A p \in probes : p.age < MaxTicksOutstanding
  /\ IF ip_address = ""
       THEN /\ server_status' = Unset
            /\ probes' = Aged(probes)
       ELSE IF ~health_check_enabled
         THEN /\ server_status' = Disabled
              /\ probes' = Aged(probes)
         ELSE /\ probes' = Aged(probes) \union {HealthRequest}
              /\ UNCHANGED server_status
  /\ UNCHANGED <<ip_address, health_check_enabled, probe_outcome, backend_ip>>
  /\ UNCHANGED cameraVars

\* what can come back for a /health request
HealthOutcomes == {"ok", "no_message", "http_error", "malformed", "network", "timeout"}

\* fetchServerHealth without the `if (!response.ok) throw` of lines 20-23:
\* the body of an error response is parsed and has no message
HealthResult_NoStatusCheck(o) ==
  CASE o = "ok" -> Ok("healthy")
    [] o = "no_message" -> NoMessage
    [] o = "http_error" -> NoMessage
    [] o = "malformed" -> Error("Error fetching - SyntaxError")
    [] o = "network" -> Error("Error fetching - TypeError: Failed to fetch")
    [] o = "timeout" -> Error("Error fetching - TimeoutError")

\* the value the .then/.catch chain of fetchServerHealth writes
HealthResult(o) ==
  CASE o = "ok" -> Ok("healthy")
    [] o = "no_message" -> NoMessage
    [] o = "http_error" -> Error("Error fetching - Error: HTTP error! status")
    [] o = "malformed" -> Error("Error fetching - SyntaxError")
    [] o = "network" -> Error("Error fetching - TypeError: Failed to fetch")
    [] o = "timeout" -> Error("Error fetching - TimeoutError")

\* the promise chain of one probe settles
ProbeSettle(p, o) ==
  /\ p \in probes
  /\ probes' = probes \ {p}
  /\ server_status' = HealthResult(o)
  /\ probe_outcome' = o
  /\ UNCHANGED <<ip_address, health_check_enabled, backend_ip>>
  /\ UNCHANGED cameraVars

NextHealth ==
  \/ \E v \in Addresses : EditAddress(v)
  \/ submitIP
  \/ ToggleHealthCheck
  \/ fetchServerHealth
  \/ \E p \in probes, o \in HealthOutcomes : ProbeSettle(p, o)

SpecHealth == Init /\ [][NextHealth]_vars

\* ========================================================== camera panel

\* only a typed server host answers; "undefined" and "" never do
Responds(addr) == addr \in Servers

\* the body of get_list, lines 112-118: empty arr, ask the backend for the
\* address, show "Fetching Cameras...", GET the list from the address held
\* in server_ip at this moment; the text change schedules a render
get_list_body ==
  /\ arr' = <<>>
  /\ invokes' = invokes \union {backend_ip}
  /\ text' = Fetching
  /\ lists' = Sent(Overlapped(lists),
                   [addr |-> server_ip, header |-> Authorization,
                    before |-> arr, overlapped |-> lists # EmptyBag])
  /\ rendered' = IF text # Fetching THEN <<>> ELSE rendered
  /\ UNCHANGED <<server_ip, cameras>>

\* the "get" button
get_list ==
  /\ BagCardinality(lists) < MaxLists
  /\ get_list_body
  /\ UNCHANGED <<reconnects, posts>>
  /\ UNCHANGED <<healthVars, backend_ip>>

\* invoke("fetch_server_ip").then((ip) => { server_ip = ip; })
InvokeResolve(v) ==
  /\ v \in invokes
  /\ invokes' = invokes \ {v}
  /\ server_ip' = v
  /\ UNCHANGED <<arr, cameras, text, rendered, lists, reconnects, posts>>
  /\ UNCHANGED <<healthVars, backend_ip>>

\* what can come back for a camera-list GET sent to addr
ListOutcomes(addr) ==
  IF Responds(addr)
    THEN {[kind |-> "cameras", cameras |-> L] : L \in CameraLists}
         \union {[kind |-> "no_cameras"], [kind |-> "not_json"], [kind |-> "rejected"]}
    ELSE {[kind |-> "rejected"]}

\* the .then/.then/.catch chain of get_list, lines 119-132
ListSettle(q, r) ==
  /\ BagIn(q, lists)
  /\ r \in ListOutcomes(q.addr)
  /\ lists' = Landed(lists, q)
  /\ CASE r.kind = "cameras" ->
            /\ cameras' = r.cameras
            /\ arr' = arr \o r.cameras
            /\ text' = Loaded
       [] r.kind = "no_cameras" ->
            /\ cameras' = Undefined
            /\ arr' = arr
            /\ text' = "TypeError"
       [] r.kind = "not_json" ->
            /\ UNCHANGED <<cameras, arr>>
            /\ text' = "SyntaxError"
       [] r.kind = "rejected" ->
            /\ UNCHANGED <<cameras, arr>>
            /\ text' = "TypeError"
  /\ rendered' = arr'
  /\ UNCHANGED <<server_ip, invokes, reconnects, posts>>
  /\ UNCHANGED <<healthVars, backend_ip>>

\* refresh_list with get_list() called right after fetch(...) instead of
\* inside its .then
refresh_list_NoWait ==
  /\ BagCardinality(reconnects) < MaxReconnects
  /\ reconnects' = Sent(reconnects, [addr |-> server_ip, header |-> Authorization])
  /\ BagCardinality(lists) < MaxLists
  /\ get_list_body
  /\ UNCHANGED posts
  /\ UNCHANGED <<healthVars, backend_ip>>

\* the "refresh" button: POST /v1/cameras/reconnect
refresh_list ==
  /\ BagCardinality(reconnects) < MaxReconnects
  /\ reconnects' = Sent(reconnects, [addr |-> server_ip, header |-> Authorization])
  /\ UNCHANGED <<server_ip, invokes, arr, cameras, text, rendered, lists, posts>>
  /\ UNCHANGED <<healthVars, backend_ip>>

ReconnectOutcomes(addr) ==
  IF Responds(addr) THEN {"ok", "http_error", "rejected"} ELSE {"rejected"}

\* the reconnect POST settles: .then(_ => { get_list(); }), no rejection handler
ReconnectSettle(q, o) ==
  /\ BagIn(q, reconnects)
  /\ o \in ReconnectOutcomes(q.addr)
  /\ reconnects' = Landed(reconnects, q)
  /\ IF o = "rejected"
       THEN UNCHANGED <<server_ip, invokes, arr, cameras, text, rendered, lists>>
       ELSE /\ BagCardinality(lists) < MaxLists
            /\ get_list_body
  /\ UNCHANGED posts
  /\ UNCHANGED <<healthVars, backend_ip>>

\* the request a pan button sends, lines 146-182
PanRequest(button, ip, x, y) ==
  [button |-> button, addr |-> server_ip, path |-> "/v1/camera", ip |-> ip,
   x_movement |-> x, y_movement |-> y, header |-> Authorization]

\* cam_right that also empties the held list, as get_list does at line 112
cam_right_ResetsList(ip) ==
  /\ BagCardinality(posts) < MaxPosts
  /\ posts' = Sent(posts, PanRequest("right", ip, -Step, 0))
  /\ text' = "t"
  /\ arr' = <<>>
  /\ rendered' = IF text # "t" THEN <<>> ELSE rendered
  /\ UNCHANGED <<server_ip, invokes, cameras, lists, reconnects>>
  /\ UNCHANGED <<healthVars, backend_ip>>

cam_right(ip) ==
  /\ BagCardinality(posts) < MaxPosts
  /\ posts' = Sent(posts, PanRequest("right", ip, -Step, 0))
  /\ text' = "t"
  /\ rendered' = IF text # "t" THEN arr ELSE rendered
  /\ UNCHANGED <<server_ip, invokes, arr, cameras, lists, reconnects>>
  /\ UNCHANGED <<healthVars, backend_ip>>

\* cam_left that waits until no earlier command is outstanding
cam_left_Queued(ip) ==
  /\ posts = EmptyBag
  /\ posts' = Sent(posts, PanRequest("left", ip, Step, 0))
  /\ UNCHANGED <<server_ip, invokes, arr, cameras, text, rendered, lists, reconnects>>
  /\ UNCHANGED <<healthVars, backend_ip>>

cam_left(ip) ==
  /\ BagCardinality(posts) < MaxPosts
  /\ posts' = Sent(posts, PanRequest("left", ip, Step, 0))
  /\ UNCHANGED <<server_ip, invokes, arr, cameras, text, rendered, lists, reconnects>>
  /\ UNCHANGED <<healthVars, backend_ip>>

cam_up(ip) ==
  /\ BagCardinality(posts) < MaxPosts
  /\ posts' = Sent(posts, PanRequest("up", ip, 0, Step))
  /\ UNCHANGED <<server_ip, invokes, arr, cameras, text, rendered, lists, reconnects>>
  /\ UNCHANGED <<healthVars, backend_ip>>

cam_down(ip) ==
  /\ BagCardinality(posts) < MaxPosts
  /\ posts' = Sent(posts, PanRequest("down", ip, 0, -Step))
  /\ UNCHANGED <<server_ip, invokes, arr, cameras, text, rendered, lists, reconnects>>
  /\ UNCHANGED <<healthVars, backend_ip>>

\* a pan POST settles; the code attaches no handler to it
PostSettle(q) ==
  /\ BagIn(q, posts)
  /\ posts' = Landed(posts, q)
  /\ UNCHANGED <<server_ip, invokes, arr, cameras, text, rendered, lists, reconnects>>
  /\ UNCHANGED <<healthVars, backend_ip>>

\* the buttons of the panels drawn from arr (v-for, lines 192-201)
Buttons == {rendered[k].ip : k \in 1..Len(rendered)}

\* the hosts typed while the camera panel is exercised
PanelAddresses == {"", "a"}

NextDirectory ==
  \/ \E v \in PanelAddresses : EditAddress(v)
  \/ submitIP
  \/ get_list
  \/ \E v \in invokes : InvokeResolve(v)
  \/ \E q \in BagToSet(lists) : \E r \in ListOutcomes(q.addr) : ListSettle(q, r)
  \/ refresh_list
  \/ \E q \in BagToSet(reconnects) : \E o \in ReconnectOutcomes(q.addr) : ReconnectSettle(q, o)

\* the outcomes of a camera-list GET that deliver cameras to press
PanListOutcomes(addr) ==
  {r \in ListOutcomes(addr) : r.kind = "cameras" /\ r.cameras # <<>>}

\* the outcome of a /health probe while the pan buttons are exercised: the
\* server answers
PanHealthOutcomes == {"ok"}

NextPan ==
  \/ EditAddress("a")
  \/ submitIP
  \/ ToggleHealthCheck
  \/ fetchServerHealth
  \/ \E p \in probes, o \in PanHealthOutcomes : ProbeSettle(p, o)
  \/ get_list
  \/ \E v \in invokes : InvokeResolve(v)
  \/ \E q \in BagToSet(lists) : \E r \in PanListOutcomes(q.addr) : ListSettle(q, r)
  \/ \E ip \in Buttons : cam_right(ip)
  \/ \E ip \in Buttons : cam_left(ip)
  \/ \E ip \in Buttons : cam_up(ip)
  \/ \E ip \in Buttons : cam_down(ip)
  \/ \E q \in BagToSet(posts) : PostSettle(q)

\* the pan buttons next to the health probe and the camera list, against a
\* server at "a" that answers every list request with its cameras
SpecPan == Init /\ [][NextPan]_vars

\* the camera list and its reconnect, no pan command pressed
SpecDirectory == Init /\ [][NextDirectory]_vars

NextCommands ==
  \/ \E v \in PanelAddresses : EditAddress(v)
  \/ submitIP
  \/ get_list
  \/ \E v \in invokes : InvokeResolve(v)
  \/ \E q \in BagToSet(lists) : \E r \in ListOutcomes(q.addr) : ListSettle(q, r)
  \/ \E ip \in Buttons : cam_right(ip)
  \/ \E ip \in Buttons : cam_left(ip)
  \/ \E ip \in Buttons : cam_up(ip)
  \/ \E ip \in Buttons : cam_down(ip)
  \/ \E q \in BagToSet(posts) : PostSettle(q)

\* the camera list and the pan buttons drawn from it
SpecCommands == Init /\ [][NextCommands]_vars

Next == NextHealth \/ NextDirectory \/ NextCommands

Spec == Init /\ [][Next]_vars

\* the panel is redrawn in the task that changes arr
RenderInSync == rendered = arr

\* ================================================================ claims

\* a step in which the promise chain of a /health request settles
ProbeLands == Cardinality(probes') < Cardinality(probes)
\* a step in which the promise chain of a camera-list GET settles
ListLands == BagCardinality(lists') < BagCardinality(lists)
\* a step in which a reconnect POST settles
ReconnectLands == BagCardinality(reconnects') < BagCardinality(reconnects)
\* the requests a step adds to a bag
NewIn(old, new) == {q \in BagToSet(new) : CopiesIn(q, new) > CopiesIn(q, old)}
\* the requests a step takes out of a bag
GoneFrom(old, new) == {q \in BagToSet(old) : CopiesIn(q, new) < CopiesIn(q, old)}
ErrorTexts == {"TypeError", "SyntaxError"}
\* the ips of the camera list of the latest discovery response, as held by
\* the cameras ref
DirectoryIps == {cameras[k].ip : k \in 1..Len(cameras)}

\* C1: HealthStatus never reads as Ok while ServerAddress is the empty string.
C1_NeverOkWhileAddressEmpty ==
  ~(server_status.kind = "Ok" /\ ServerAddress = "")

\* C2: a response to a request that was sent to an address other than the
\* current one writes neither HealthStatus nor the camera directory nor the
\* directory status text.
C2_StaleResponsesDiscarded ==
  [][/\ ProbeLands =>
          \A p \in probes \ probes' :
            p.addr # ServerAddress => server_status' = server_status
     /\ ListLands =>
          \A q \in GoneFrom(lists, lists') :
            q.addr # backend_ip => UNCHANGED <<arr, cameras, text>>]_vars

\* C3: health probing is single-flight: at most one /health request is
\* outstanding in every reachable state.
C3_SingleFlightProbe == Cardinality(probes) <= 1

\* C4: a camera-list refresh that ends in an error leaves the held camera
\* sequence exactly as it was before that refresh was started. Stated for a
\* refresh that had no other refresh outstanding beside it, so that no other
\* response can account for a change of the sequence.
C4_FailedRefreshKeepsSequence ==
  [][(ListLands /\ text' \in ErrorTexts) =>
       \A q \in GoneFrom(lists, lists') :
         ~q.overlapped => arr' = q.before]_vars

\* C5: the held camera sequence always equals the camera list of exactly one
\* discovery response: no records of two responses, no record twice.
C5_SequenceIsOneResponse == arr \in CameraLists

\* C6: whenever the reconnect POST settles, whatever its outcome, a
\* camera-list GET is sent.
C6_ReconnectAlwaysRefreshes ==
  [][ReconnectLands => BagCardinality(lists') = BagCardinality(lists) + 1]_vars

\* C7: no pan request is sent for a camera that is absent from the current
\* camera directory. Stated for the states in which a discovery response has
\* delivered a camera list (the cameras ref holds one).
C7_NoCommandForUnknownCamera ==
  [][cameras # Undefined =>
       \A q \in NewIn(posts, posts') : q.ip \in DirectoryIps]_vars

\* C8: with ServerAddress a, the left button of the camera with ip c sends
\* exactly one POST, to http://a:8000/v1/camera, with ip=c, x_movement=-0.2
\* and y_movement=0.
C8_LeftSendsMinusStepX ==
  [][\A q \in NewIn(posts, posts') :
       q.button = "left" =>
         /\ BagCardinality(posts') = BagCardinality(posts) + 1
         /\ q.addr = ServerAddress
         /\ q.path = "/v1/camera"
         /\ q.ip \in Buttons
         /\ q.x_movement = -Step
         /\ q.y_movement = 0]_vars

\* C9: whenever ServerAddress is the empty string, HealthStatus is Unset,
\* whatever the health-check-enabled flag.
C9_EmptyAddressIsUnset ==
  ServerAddress = "" => server_status = Unset

\* C10: whenever health checking is off and ServerAddress is non-empty,
\* HealthStatus is Disabled.
C10_DisabledWhenFlagOff ==
  (~health_check_enabled /\ ServerAddress # "") => server_status = Disabled

\* the ways a /health probe fails: timeout, network error, non-2xx status,
\* a body that is not JSON
FailureOutcomes == {"timeout", "network", "http_error", "malformed"}
\* no probe is so old that the timeout has aborted it before the next tick
TickDue == \A p \in probes : p.age < MaxTicksOutstanding

EmptyOrMissingLands ==
  /\ ListLands
  /\ \/ cameras' = Undefined /\ cameras # Undefined
     \/ cameras' # Undefined /\ cameras' = <<>> /\
          (cameras = Undefined \/ (cameras # Undefined /\ cameras # <<>>))

\* C12: a camera-list response whose cameras list is empty or missing ends
\* with text "Cameras Loaded Successfully" and, when no other refresh was
\* outstanding beside it, with an empty held sequence.
C12_EmptyOrMissingIsSuccess ==
  [][EmptyOrMissingLands =>
       /\ text' = Loaded
       /\ \A q \in GoneFrom(lists, lists') : ~q.overlapped => arr' = <<>>]_vars

\* C14: the step that submits a new address sends a camera-list GET to that
\* address.
C14_SubmitTriggersRefresh ==
  [][backend_ip' # backend_ip =>
       \E q \in NewIn(lists, lists') : q.addr = backend_ip']_vars

\* C15: every outstanding control-plane request (health probe, camera list,
\* reconnect, pan command) carries a header named exactly Authorization.
C15_AllRequestsAuthorized ==
  /\ \A p \in probes : p.header = Authorization
  /\ \A q \in BagToSet(lists) \union BagToSet(reconnects) \union BagToSet(posts) :
       q.header = Authorization

\* C17: once the operator has submitted an address, every camera-list GET
\* that get_list sends is addressed to the address submitted last.
C17_ListGoesToSubmittedAddress ==
  [][backend_ip # "" =>
       \A q \in NewIn(lists, lists') : q.addr = backend_ip]_vars

\* C20: every health probe is sent to the address the operator submitted
\* last, the address the camera directory is given.
C20_ProbeGoesToSubmittedAddress ==
  [][\A p \in probes' \ probes :
       (p.age = 0 /\ ~ProbeLands) => p.addr = backend_ip]_vars

\* C18: within one reconnect call the camera-list GET is not sent by the step
\* that sends the reconnect POST, only by the step in which that POST
\* settles, and that step sends at most one GET.
C18_ReconnectThenList ==
  [][/\ NewIn(reconnects, reconnects') # {} => lists' = lists
     /\ ReconnectLands => BagCardinality(lists') <= BagCardinality(lists) + 1]_vars

\* C18 witness: a reconnect POST to a server is outstanding and no
\* camera-list GET has been sent for it.
C18_Witness ==
  /\ \E q \in BagToSet(reconnects) : q.addr \in Servers
  /\ lists = EmptyBag
  /\ text # Fetching

\* the <<x_movement, y_movement>> the earlier camera panel sends for a button
\* (part_001 lines 43-78)
EarlierMovement(button) ==
  CASE button = "right" -> <<Step, 0>>
    [] button = "left"  -> <<-Step, 0>>
    [] button = "up"    -> <<0, Step>>
    [] button = "down"  -> <<0, -Step>>

\* the <<x_movement, y_movement>> the React camera panel sends for its two
\* buttons (part_000 lines 16-17)
ReactMovement(button) ==
  CASE button = "left"  -> <<Step, 0>>
    [] button = "right" -> <<-Step, 0>>

\* C19: each press of a directional button sends exactly one POST with
\* exactly one of x_movement, y_movement non-zero and of magnitude 0.2, left
\* and right on x only, up and down on y only, and with the sign the other
\* camera panels of the repository use for that button.
C19_OneAxisSameSignEverywhere ==
  [][\A q \in NewIn(posts, posts') :
       /\ BagCardinality(posts') = BagCardinality(posts) + 1
       /\ {q.x_movement, q.y_movement} \in {{0, Step}, {0, -Step}}
       /\ q.button \in {"left", "right"} => q.y_movement = 0
       /\ q.button \in {"up", "down"} => q.x_movement = 0
       /\ <<q.x_movement, q.y_movement>> = EarlierMovement(q.button)
       /\ q.button \in {"left", "right"} =>
            <<q.x_movement, q.y_movement>> = ReactMovement(q.button)]_vars

\* a step that sends a pan command, or in which one settles
CommandStep == NewIn(posts, posts') # {} \/ GoneFrom(posts, posts') # {}

\* C13: a pan command is sent at once whatever else is outstanding (other
\* commands, camera-list GETs, health probes); sending one settles no other,
\* a settling one takes no other with it, and every outstanding command can
\* settle on its own.
C13_CommandsIndependent ==
  /\ [](\A ip \in Buttons : BagCardinality(posts) < MaxPosts =>
          /\ ENABLED cam_right(ip)
          /\ ENABLED cam_left(ip)
          /\ ENABLED cam_up(ip)
          /\ ENABLED cam_down(ip))
  /\ [](\A q \in BagToSet(posts) : ENABLED PostSettle(q))
  /\ [][/\ NewIn(posts, posts') # {} => GoneFrom(posts, posts') = {}
        /\ BagCardinality(posts') >= BagCardinality(posts) - 1]_vars

\* C13 witness: commands to two different cameras are outstanding together
\* with a camera-list GET and a health probe.
C13_Witness ==
  /\ \E qa, qb \in BagToSet(posts) : qa.ip # qb.ip
  /\ lists # EmptyBag
  /\ probes # {}

\* C16: a step that sends a pan command, or in which one settles, leaves the
\* held camera sequence, ServerAddress and HealthStatus unchanged.
C16_CommandFrame ==
  [][CommandStep =>
       /\ arr' = arr
       /\ ServerAddress' = ServerAddress
       /\ server_status' = server_status]_vars

\* C16 witness: the right button was pressed (it wrote "t") while cameras are
\* held and the health status is Ok; its command is outstanding.
C16_Witness ==
  /\ \E q \in BagToSet(posts) : q.button = "right"
  /\ text = "t"
  /\ arr = <<Cam1, Cam2>>
  /\ server_status.kind = "Ok"

====
